---------------------------- MODULE Spec2Model ----------------------------
(***************************************************************************)
(* A model of the Liger hybrid attention layers: the gated-slot-attention  *)
(* variant (liger_gsa) and the gated-linear-attention variant              *)
(* (liger_qwen2_gla).  Tensors are modelled per sequence position by       *)
(* symbolic terms (tuples): a projection or kernel is the free function of *)
(* its inputs, except where the code makes a value exactly zero (the       *)
(* left-padding mask) or where softmax attention over equal values returns *)
(* that value.  Shapes, cache indices, offsets and control flow are        *)
(* modelled as the code computes them.                                     *)
(***************************************************************************)
EXTENDS Integers, Sequences, FiniteSets, TLC

VARIABLES
    engine,     \* a stand-alone attention engine (nn.Module) and its fields
    model,      \* the stack model: variant, per-layer engines, module flags
    heap,       \* the FlaCache objects that exist, by identity (index)
    written,    \* history: per cache and layer, the state last given to update
    last,       \* history: what the most recent attention forward did
    call,       \* the stack-model forward call in progress (or finished)
    probe,      \* results of the paired attention runs (padding experiment)
    fed,        \* history: per cache, the tokens the finished calls fed it
    ncalls,     \* number of operations made so far
    tensors,    \* history: the tensors of the most recent engine forward
    gate,       \* the gating computation on one pooled logit, in fixed point
    threads     \* two forward calls that interleave on one cache

vars == <<engine, model, heap, written, last, call, probe, fed, ncalls,
          tensors, gate, threads>>

---------------------------------------------------------------------------
(* Bounds of the model *)

NumLayers == 2      \* config.num_hidden_layers of the stack model
MaxNew == 2         \* most new tokens (sequence length) of one forward call
MaxCalls == 2       \* most forward calls in one behaviour

\* pooled key logits range over -MaxLogit..MaxLogit
MaxLogit == 128

(* Program constants *)

NoLayerIdx == -1            \* layer_idx = None
WindowSize == 64            \* window_size of the flash-attention path
GateLogitNormalizer == 16   \* gate_logit_normalizer

Variants == {"gsa", "gla"}

---------------------------------------------------------------------------
(* Sequence helpers *)

SeqMap(Op(_), s) == [i \in 1..Len(s) |-> Op(s[i])]

Prefix(s, j) == SubSeq(s, 1, j)

---------------------------------------------------------------------------
(* Tensors, per position.  Zero is the exact zero vector. *)

Zero == <<>>

Embed(tok) == <<"e", tok>>

QProj(h) == <<"q", h>>
KProj(h) == <<"k", h>>
VProj(h) == <<"v", h>>

\* pool_g: adaptive average pooling of the key projection
PoolG(k) == <<"pool", k>>

\* g = logsigmoid(pooled) / gate_logit_normalizer
Gate(p) == <<"g", p, GateLogitNormalizer>>

\* s = 1 - exp(g)
SlotDecay(g) == <<"s", g>>

\* F.softmax over the feature axis (the linear-attention variant's norm)
Softmax(x) == <<"softmax", x>>

\* x.mul_(mask): a mask value of 1 keeps x, 0 makes it exactly zero
MulMask(x, m) == IF m = 0 THEN Zero ELSE x

\* an outer product; zero when either factor is zero
Outer(a, b) == IF a = Zero \/ b = Zero THEN Zero ELSE <<a, b>>

---------------------------------------------------------------------------
(* The gating computation on numbers.  A pooled key logit is an integer;    *)
(* exp and log are computed in fixed point with Precision units to one, and *)
(* the tensors g and s hold values rounded to Resolution units to one, the  *)
(* spacing of bfloat16 values just below one.                               *)

Precision == 16384

Resolution == 256

\* a / b rounded to the nearest integer (b > 0)
RoundDiv(a, b) == (2 * a + b) \div (2 * b)

Abs(a) == IF a < 0 THEN -a ELSE a

\* the alternating series of exp(-u), from the term of index k on
RECURSIVE ExpSeries(_, _, _)
ExpSeries(u, k, term) ==
    IF term = 0 THEN 0
    ELSE term - ExpSeries(u, k + 1, RoundDiv(term * u, Precision * k))

\* torch.exp at a non-positive argument -t: exp(-t), t >= 0 in Precision
\* units; above one, as the product of the exponentials of the two halves
RECURSIVE ExpNeg(_)
ExpNeg(t) ==
    IF t <= Precision THEN ExpSeries(t, 1, Precision)
    ELSE RoundDiv(ExpNeg(t \div 2) * ExpNeg(t - t \div 2), Precision)

\* the series of atanh(z), from the odd power pow = z^k on
RECURSIVE AtanhSeries(_, _, _)
AtanhSeries(z2, k, pow) ==
    IF pow = 0 THEN 0
    ELSE RoundDiv(pow, k) + AtanhSeries(z2, k + 2, RoundDiv(pow * z2, Precision))

\* log(1 + w) for 0 <= w <= 1, as 2 * atanh(w / (2 + w))
Log1p(w) ==
    2 * AtanhSeries(RoundDiv(RoundDiv(w * Precision, 2 * Precision + w)
                              * RoundDiv(w * Precision, 2 * Precision + w),
                             Precision),
                    1, RoundDiv(w * Precision, 2 * Precision + w))

\* softplus(t) = log(1 + exp(t)) = max(t, 0) + log(1 + exp(-|t|))
Softplus(t) == (IF t > 0 THEN t ELSE 0) + Log1p(ExpNeg(Abs(t)))

\* F.logsigmoid(t) = -softplus(-t)
LogSigmoid(t) == -Softplus(-t)

\* the gate with the sign of softplus: log(1 + exp(x)) / 16
GateValueOfSoftplus(x) ==
    RoundDiv(Softplus(x * Precision) * Resolution,
             Precision * GateLogitNormalizer)

\* g = F.logsigmoid(g) / gate_logit_normalizer, of the pooled logit x,
\* in Resolution units
GateValue(x) ==
    RoundDiv(LogSigmoid(x * Precision) * Resolution,
             Precision * GateLogitNormalizer)

\* exp(g) alone, in Resolution units
ExpOfGate(g) ==
    RoundDiv(ExpNeg((-g) * (Precision \div Resolution)) * Resolution, Precision)

\* s = 1 - torch.exp(g), in Resolution units
SlotDecayValue(g) ==
    Resolution
    - RoundDiv(ExpNeg((-g) * (Precision \div Resolution)) * Resolution, Precision)

\* s.mul_(mask) on numbers
MaskedValue(x, m) == x * m

---------------------------------------------------------------------------
(* The recurrent-state cache (fla.models.utils.Cache): a list of per-layer  *)
(* states and the count of tokens seen.  A state is the fold of the         *)
(* contributions of the tokens processed so far; NoState is None.           *)

NoState == <<>>

NoPkv == [kind |-> "none", id |-> 0]
FlaRef(i) == [kind |-> "fla", id |-> i]
LegacyPkv == [kind |-> "legacy", id |-> 0]
PairPkv(i) == [kind |-> "pair", id |-> i]

\* Cache(): no states, nothing seen
EmptyCache == [states |-> <<>>, seen |-> 0]

\* len(cache)
CacheLen(c) == Len(c.states)

\* cache[layer_idx]['recurrent_state']
CacheGet(c, layer_idx) == c.states[layer_idx + 1]

\* cache.update(recurrent_state=..., layer_idx=..., offset=...)
CacheUpdate(c, state, layer_idx, offset) ==
    [states |-> IF Len(c.states) <= layer_idx
                THEN Append(c.states, state)
                ELSE [c.states EXCEPT ![layer_idx + 1] = state],
     seen   |-> IF layer_idx = 0 THEN c.seen + offset ELSE c.seen]

\* cache.get_seq_length()
GetSeqLength(c) == IF Len(c.states) = 0 THEN 0 ELSE c.seen

\* FlaCache.from_legacy_cache(x) for x None or a tuple: a new, empty cache
\* object appended to the heap; its identity is its index
FromLegacyCache(hp) == Append(hp, EmptyCache)

---------------------------------------------------------------------------
(* The recurrent kernels (fla.ops): both fold the per-token contributions  *)
(* into the state, starting from initial_state (None is the zero state),   *)
(* and return the outputs and the final state.                             *)

KernelStep(state, c) == Append(state, c)

RECURSIVE KernelFold(_, _)
KernelFold(state, cs) ==
    IF cs = <<>> THEN state
    ELSE KernelFold(KernelStep(state, Head(cs)), Tail(cs))

\* chunk_gsa / fused_chunk_gla: the whole span at once
ChunkKernel(q, cs, init) ==
    [o     |-> [j \in 1..Len(q) |-> <<"o", q[j], KernelFold(init, Prefix(cs, j))>>],
     final |-> KernelFold(init, cs)]

\* fused_recurrent_gsa / fused_recurrent_gla: token by token
FusedRecurrentKernel(q, cs, init) ==
    [o     |-> [j \in 1..Len(q) |-> <<"o", q[j], KernelFold(init, Prefix(cs, j))>>],
     final |-> KernelFold(init, cs)]

\* _flash_attention_forward, causal with a sliding window: position j attends
\* the unmasked positions i <= j inside the window; rotary embedding makes the
\* scores depend on j - i.  A padded query position yields zero.  A softmax
\* average of equal values is that value.
FlashAttention(sq, sk, sv, m) ==
    [j \in 1..Len(sq) |->
        LET keys == {i \in 1..j : j - i < WindowSize /\ m[i] # 0}
            vals == {sv[i] : i \in keys}
        IN  IF m[j] = 0 \/ keys = {} THEN Zero
            ELSE IF Cardinality(vals) = 1 THEN <<"y", CHOOSE x \in vals : TRUE>>
            ELSE <<"y", sq[j], [i \in 1..j |-> IF i \in keys
                                                THEN <<j - i, sk[i], sv[i]>>
                                                ELSE Zero]>>]

---------------------------------------------------------------------------
(* Construction of an attention engine.  A config carries hidden_size,     *)
(* num_attention_heads, num_key_value_heads and head_dim (0: the config    *)
(* has no head_dim attribute).                                             *)

NotBuilt ==
    [status |-> "none", variant |-> "gsa", layer_idx |-> NoLayerIdx,
     hidden_size |-> 0, num_heads |-> 0, head_dim |-> 0,
     num_key_value_heads |-> 0, num_key_value_groups |-> 0,
     training |-> TRUE, warned |-> FALSE, cfg_head_dim |-> 0]

\* LigerGatedSlotAttention.__init__
GSAInit(config, layer_idx) ==
    [status |-> "built", variant |-> "gsa", layer_idx |-> layer_idx,
     hidden_size |-> config.hidden_size,
     num_heads |-> config.num_attention_heads,
     head_dim |-> IF config.head_dim # 0 THEN config.head_dim
                  ELSE config.hidden_size \div config.num_attention_heads,
     num_key_value_heads |-> config.num_key_value_heads,
     num_key_value_groups |->
         config.num_attention_heads \div config.num_key_value_heads,
     training |-> TRUE, warned |-> FALSE, cfg_head_dim |-> config.head_dim]

\* LigerQwen2GatedLinearAttention.__init__
GLAInit(config, layer_idx) ==
    LET head_dim == config.hidden_size \div config.num_attention_heads
    IN  [status |-> IF head_dim * config.num_attention_heads # config.hidden_size
                    THEN "failed" ELSE "built",
         variant |-> "gla", layer_idx |-> layer_idx,
         hidden_size |-> config.hidden_size,
         num_heads |-> config.num_attention_heads,
         head_dim |-> head_dim,
         num_key_value_heads |-> config.num_key_value_heads,
         num_key_value_groups |->
             config.num_attention_heads \div config.num_key_value_heads,
         training |-> TRUE, warned |-> (layer_idx = NoLayerIdx),
         cfg_head_dim |-> config.head_dim]

EngineInit(variant, config, layer_idx) ==
    IF variant = "gsa" THEN GSAInit(config, layer_idx)
    ELSE GLAInit(config, layer_idx)

---------------------------------------------------------------------------
(* The attention engine's forward *)

\* a head split that leaves the sequence axis before the head axis
QShapeSeqFirst(eng, n) == <<1, n, eng.num_heads, eng.head_dim>>

\* shape of q after the head split: (batch, heads, sequence, head_dim)
QShape(eng, n) == <<1, eng.num_heads, n, eng.head_dim>>

\* self.training or q.shape[-2] > 1
SelectKernel(training, q_shape) ==
    IF training \/ q_shape[Len(q_shape) - 1] > 1 THEN "chunk" ELSE "fused"

\* offset=q.shape[1]
UpdateOffset(q_shape) == q_shape[2]

\* a lookup that returns the entry of the first layer for every layer
PriorStateOfFirstLayer(hp, pkv, layer_idx) ==
    IF pkv.kind = "fla" /\ CacheLen(hp[pkv.id]) > layer_idx
    THEN CacheGet(hp[pkv.id], 0)
    ELSE NoState

\* last_state / recurrent_state: the entry of this layer, when the cache has one
PriorState(hp, pkv, layer_idx) ==
    IF pkv.kind = "fla" /\ CacheLen(hp[pkv.id]) > layer_idx
    THEN CacheGet(hp[pkv.id], layer_idx)
    ELSE NoState

\* attention_mask[:, None, :n, None]: the mask at its first n positions
MaskHead(mask, n) ==
    [j \in 1..n |-> IF mask = <<>> THEN 1 ELSE mask[j]]

\* attention_mask[:, None, -n:, None]: the mask at its last n positions
\* (no mask: every position valid)
MaskTail(mask, n) ==
    [j \in 1..n |-> IF mask = <<>> THEN 1 ELSE mask[Len(mask) - n + j]]

\* the value tensor of the recurrent path: masked in place (slot attention),
\* untouched (linear attention)
RecurrentV(variant, v, m) ==
    IF variant = "gsa" THEN [j \in 1..Len(v) |-> MulMask(v[j], m[j])] ELSE v

\* sv: bound to the same tensor object as v before the in-place masking
WindowV(variant, v, m) == RecurrentV(variant, v, m)

\* the slot decay s, masked (slot attention only)
RecurrentS(g, m) == [j \in 1..Len(g) |-> MulMask(SlotDecay(g[j]), m[j])]

\* what each token adds to the recurrent state, from the kernel's arguments:
\* k, the value rv and slot decay s as masked, and the gate g
Contributions(variant, k, rv, s, g) ==
    IF variant = "gsa"
    THEN [j \in 1..Len(k) |-> <<Outer(s[j], k[j]), Outer(s[j], rv[j]), g[j]>>]
    ELSE [j \in 1..Len(k) |-> <<Outer(Softmax(k[j]), rv[j]), g[j]>>]

\* the query of the recurrent path
RecurrentQ(variant, q) == IF variant = "gsa" THEN q ELSE SeqMap(Softmax, q)

\* the weight 0.5 of the blend, as numerator and denominator
BlendWeight == <<1, 2>>

\* a blend that weighs the recurrent output more: 0.25 * y + 0.75 * o_
BlendSkewed(y, o) == <<"blend", <<1, 4>>, y, <<3, 4>>, o>>

\* o_ = 0.5 * y + 0.5 * o_
Blend(y, o) == <<"blend", BlendWeight, y, BlendWeight, o>>

\* o_.bfloat16(): the rounding of the blend to bfloat16
Bf16(x) == <<"bf16", x>>

\* o = self.o_proj(o)
OProj(b) == <<"out", b>>

\* sq, sk: bound to q and k before the recurrent path rebinds its own
WindowQ(q) == q
WindowK(k) == k

\* a write-back that stores every layer's state in the entry of layer 0
WriteBackFirstLayer(hp, pkv, state, layer_idx, offset) ==
    IF pkv.kind # "none"
    THEN [hp EXCEPT ![pkv.id] = CacheUpdate(hp[pkv.id], state, 0, offset)]
    ELSE hp

\* a write-back that appends the state to the list of the cache, whatever
\* the layer index
WriteBackAppended(hp, pkv, state, layer_idx, offset) ==
    IF pkv.kind # "none"
    THEN [hp EXCEPT ![pkv.id] =
             [states |-> Append(hp[pkv.id].states, state),
              seen   |-> IF layer_idx = 0 THEN hp[pkv.id].seen + offset
                         ELSE hp[pkv.id].seen]]
    ELSE hp

\* a write-back that leaves an entry the cache already holds as it is
WriteBackIfAbsent(hp, pkv, state, layer_idx, offset) ==
    IF pkv.kind # "none" /\ CacheLen(hp[pkv.id]) <= layer_idx
    THEN [hp EXCEPT ![pkv.id] = CacheUpdate(hp[pkv.id], state, layer_idx, offset)]
    ELSE hp

\* the write-back: past_key_value.update(...) when a cache was given
WriteBack(hp, pkv, state, layer_idx, offset) ==
    IF pkv.kind # "none"
    THEN [hp EXCEPT ![pkv.id] = CacheUpdate(hp[pkv.id], state, layer_idx, offset)]
    ELSE hp

Failure(hp, err) ==
    [ok |-> FALSE, err |-> err, heap |-> hp, out |-> <<>>, ran |-> FALSE,
     kernels |-> {}, init |-> NoState, final |-> NoState, updated |-> FALSE,
     offset |-> 0, q |-> <<>>, k |-> <<>>, rawv |-> <<>>, m |-> <<>>,
     sq |-> <<>>, sk |-> <<>>, sv |-> <<>>, v |-> <<>>, s |-> <<>>, g |-> <<>>,
     y |-> <<>>, o |-> <<>>, blend |-> <<>>, oin |-> <<>>]

\* the kernel call: chunked or fused, by the mode selected
RunKernel(kernel, rq, cs, init) ==
    IF kernel = "chunk" THEN ChunkKernel(rq, cs, init)
    ELSE FusedRecurrentKernel(rq, cs, init)

\* forward, after the kernel and the window attention: the write-back, the
\* blend, the cast and the output projection
AttnFinish(eng, hp, pkv, q_shape, kernel, init, x, res, y) ==
    [ok |-> TRUE, err |-> "",
     heap |-> WriteBack(hp, pkv, res.final, eng.layer_idx, UpdateOffset(q_shape)),
     out |-> [j \in 1..Len(y) |-> OProj(Bf16(Blend(y[j], res.o[j])))],
     ran |-> TRUE,
     kernels |-> {kernel}, init |-> init, final |-> res.final,
     updated |-> (pkv.kind # "none"), offset |-> UpdateOffset(q_shape),
     q |-> x.q, k |-> x.k, rawv |-> x.v, m |-> x.m,
     sq |-> x.sq, sk |-> x.sk, sv |-> x.sv, v |-> x.rv,
     s |-> IF eng.variant = "gsa" THEN x.s ELSE <<>>,
     g |-> x.g, y |-> y, o |-> res.o,
     blend |-> [j \in 1..Len(y) |-> Blend(y[j], res.o[j])],
     oin |-> [j \in 1..Len(y) |-> Bf16(Blend(y[j], res.o[j]))]]

\* forward, from the masked tensors x on: the recurrent kernel from the prior
\* state, and the window attention
AttnKernels(eng, hp, pkv, x, q_shape, init) ==
    AttnFinish(eng, hp, pkv, q_shape, SelectKernel(eng.training, q_shape),
               init, x,
               RunKernel(SelectKernel(eng.training, q_shape),
                         RecurrentQ(eng.variant, x.q),
                         Contributions(eng.variant, x.k, x.rv, x.s, x.g), init),
               FlashAttention(x.sq, x.sk, x.sv, x.m))

\* forward, from the gates on: the window path's tensors and the masking of
\* s and v
AttnMasked(eng, hp, pkv, q, k, v, g, m) ==
    AttnKernels(eng, hp, pkv,
                [q |-> q, k |-> k, v |-> v, g |-> g, m |-> m,
                 sq |-> WindowQ(q), sk |-> WindowK(k),
                 sv |-> WindowV(eng.variant, v, m),
                 rv |-> RecurrentV(eng.variant, v, m),
                 s |-> RecurrentS(g, m)],
                QShape(eng, Len(q)), PriorState(hp, pkv, eng.layer_idx))

\* forward, from the projected q, k, v on
AttnCore(eng, hp, pkv, q, k, v, mask) ==
    IF pkv.kind # "none" /\ (eng.layer_idx = NoLayerIdx \/ pkv.kind # "fla")
    THEN Failure(hp, IF pkv.kind = "pair" /\ pkv.id = 0 /\ eng.layer_idx = 0
                     THEN "AttributeError" ELSE "TypeError")
    ELSE AttnMasked(eng, hp, pkv, q, k, v,
                    [j \in 1..Len(k) |-> Gate(PoolG(k[j]))],
                    MaskTail(mask, Len(q)))

\* forward
AttnForward(eng, hp, pkv, hidden_states, mask) ==
    AttnCore(eng, hp, pkv, SeqMap(QProj, hidden_states),
             SeqMap(KProj, hidden_states), SeqMap(VProj, hidden_states), mask)

---------------------------------------------------------------------------
(* The stack model *)

\* the decoder layer around the attention engine: norms, residuals, MLP
DecoderLayer(h, attn_out) == <<"h", h, attn_out>>

\* the final RMS norm
Norm(h) == <<"norm", h>>

\* LigerGSAModel.__init__ / LigerQwen2GLAModel.__init__: one decoder layer per
\* layer index; gradient checkpointing is off until it is enabled
BuildModel(variant, config, training, gc) ==
    [status |-> "built", variant |-> variant,
     layers |-> [i \in 1..NumLayers |-> EngineInit(variant, config, i - 1)],
     training |-> training, gradient_checkpointing |-> gc]

\* the engine of layer l, in the module's current training mode
LayerEngine(mdl, l) == [mdl.layers[l + 1] EXCEPT !.training = mdl.training]

\* use_cache after the gradient-checkpointing override
EffectiveUseCache(mdl, a) ==
    a.use_cache /\ ~(mdl.gradient_checkpointing /\ mdl.training)

Prepared(hp, pkv, uc, legacy) ==
    [ok |-> TRUE, err |-> "", heap |-> hp, pkv |-> pkv, use_cache |-> uc,
     return_legacy_cache |-> legacy,
     past_seen |-> IF pkv.kind = "fla" THEN GetSeqLength(hp[pkv.id]) ELSE 0]

Rejected(hp, pkv, uc, err) ==
    [ok |-> FALSE, err |-> err, heap |-> hp, pkv |-> pkv, use_cache |-> uc,
     return_legacy_cache |-> FALSE, past_seen |-> 0]

\* LigerGSAModel.forward up to the decoder loop
GSAPrepare(mdl, hp, a) ==
    LET uc  == EffectiveUseCache(mdl, a)
        new == FlaRef(Len(hp) + 1)
        arg == a.past_key_values
    IN  IF uc /\ a.output_attentions
        THEN \* the (recurrent, softmax) pair; a given recurrent cache that
             \* already is a FlaCache leaves the first element None
             IF arg.kind = "none"
             THEN Prepared(FromLegacyCache(hp), PairPkv(Len(hp) + 1), uc, FALSE)
             ELSE Prepared(hp, PairPkv(0), uc, TRUE)
        ELSE IF uc
        THEN IF arg.kind # "fla"
             THEN Prepared(FromLegacyCache(hp), new, uc, FALSE)
             ELSE Prepared(hp, arg, uc, FALSE)
        ELSE IF a.output_attentions
        THEN \* past_key_values[1] of None, or get_seq_length of None
             Rejected(hp, arg, uc, IF arg.kind = "none" THEN "TypeError"
                                   ELSE "AttributeError")
        ELSE IF arg.kind = "legacy"
        THEN Rejected(hp, arg, uc, "AttributeError")
        ELSE Prepared(hp, arg, uc, FALSE)

\* a preparation that keeps one cache object for all calls without a cache
GLAPrepareShared(mdl, hp, a) ==
    IF a.past_key_values.kind \notin {"none", "fla"}
    THEN Rejected(hp, a.past_key_values, EffectiveUseCache(mdl, a), "ValueError")
    ELSE IF EffectiveUseCache(mdl, a) /\ a.past_key_values.kind = "none"
    THEN IF hp = <<>>
         THEN Prepared(FromLegacyCache(hp), FlaRef(1), TRUE, FALSE)
         ELSE Prepared(hp, FlaRef(1), TRUE, FALSE)
    ELSE Prepared(hp, a.past_key_values, EffectiveUseCache(mdl, a), FALSE)

\* a preparation without the check of the type of past_key_values
GLAPrepareUnchecked(mdl, hp, a) ==
    IF EffectiveUseCache(mdl, a) /\ a.past_key_values.kind = "none"
    THEN Prepared(FromLegacyCache(hp), FlaRef(Len(hp) + 1), TRUE, FALSE)
    ELSE Prepared(hp, a.past_key_values, EffectiveUseCache(mdl, a), FALSE)

\* LigerQwen2GLAModel.forward up to the decoder loop
GLAPrepare(mdl, hp, a) ==
    LET uc  == EffectiveUseCache(mdl, a)
        arg == a.past_key_values
    IN  IF arg.kind \notin {"none", "fla"}
        THEN Rejected(hp, arg, uc, "ValueError")
        ELSE IF uc /\ arg.kind = "none"
        THEN Prepared(FromLegacyCache(hp), FlaRef(Len(hp) + 1), uc, FALSE)
        ELSE Prepared(hp, arg, uc, FALSE)

Prepare(mdl, hp, a) ==
    IF mdl.variant = "gsa" THEN GSAPrepare(mdl, hp, a) ELSE GLAPrepare(mdl, hp, a)

\* the names the loop body reads before the layer runs:
\* all_softmax_hidden_states and (linear attention, checkpointing) causal_mask
LoopNameError(mdl, a) ==
    \/ a.output_hidden_states /\ (mdl.variant = "gla" \/ ~a.output_attentions)
    \/ mdl.variant = "gla" /\ mdl.gradient_checkpointing /\ mdl.training

\* layer_outputs[0]: the hidden states a decoder layer returns
LayerOutput(hidden, r) ==
    [j \in 1..Len(hidden) |-> DecoderLayer(hidden[j], r.out[j])]

\* one pass of the decoder loop: the layer runs on the current hidden states;
\* under gradient checkpointing the hidden states are not replaced
LayerResult(mdl, hidden, r) ==
    [r |-> r,
     hidden |-> IF ~r.ok \/ (mdl.gradient_checkpointing /\ mdl.training)
                THEN hidden
                ELSE LayerOutput(hidden, r)]

LayerForward(mdl, l, hp, pkv, hidden, mask) ==
    LayerResult(mdl, hidden,
                AttnForward(LayerEngine(mdl, l), hp, pkv, hidden, mask))

\* the whole decoder loop, from layer l on: the heap it leaves
RECURSIVE RunLayers(_, _, _, _, _, _)
RunFrom(mdl, l, pkv, mask, f) ==
    IF ~f.r.ok THEN f.r.heap
    ELSE RunLayers(mdl, l + 1, f.r.heap, pkv, f.hidden, mask)

RunLayers(mdl, l, hp, pkv, hidden, mask) ==
    IF l >= NumLayers THEN hp
    ELSE RunFrom(mdl, l, pkv, mask, LayerForward(mdl, l, hp, pkv, hidden, mask))

\* the per-layer recurrent states after one call over all the tokens with a
\* fresh cache
WholeStates(mdl, tokens) ==
    RunLayers(mdl, 0, <<EmptyCache>>, FlaRef(1), SeqMap(Embed, tokens), <<>>)[1].states

NoArgs ==
    [input_ids |-> <<>>, attention_mask |-> <<>>, past_key_values |-> NoPkv,
     use_cache |-> FALSE, output_attentions |-> FALSE,
     output_hidden_states |-> FALSE]

NoReturn ==
    [last_hidden_state |-> <<>>, past_key_values |-> NoPkv, hidden_states |-> <<>>]

NoCall ==
    [pc |-> "idle", args |-> NoArgs, err |-> "", use_cache |-> FALSE,
     pkv |-> NoPkv, hidden |-> <<>>, layer |-> 0, inits |-> <<>>,
     chain |-> <<>>,
     all_hidden_states |-> <<>>, next_decoder_cache |-> NoPkv,
     return_legacy_cache |-> FALSE, past_seen |-> 0, ncaches0 |-> 0,
     ret |-> NoReturn]

---------------------------------------------------------------------------
(* Inputs *)

\* configurations for constructing engines
Configs ==
    [hidden_size : 2..4, num_attention_heads : 1..3,
     num_key_value_heads : 1..3, head_dim : 0..2]

\* configurations of the engines that run forward calls: the key/value heads
\* divide the heads, the heads divide the hidden size
EngineConfigs ==
    {c \in [hidden_size : {4}, num_attention_heads : 1..2,
            num_key_value_heads : 1..2, head_dim : {0}] :
        c.num_attention_heads % c.num_key_value_heads = 0}

\* the lengths of a forward call: one new token (decoding) or the longest span
CallLens == {1, MaxNew}

\* input_ids of n new tokens: two token ids, alternating
TokenInputs(n) == {[i \in 1..n |-> 1 + (i % 2)]}

\* hidden states of n new tokens
HiddenInputs(n) == {SeqMap(Embed, ids) : ids \in TokenInputs(n)}

\* left-padded attention masks over n new tokens: pad zeros first
LeftPadMasks(n) ==
    {[i \in 1..n |-> IF i <= pad THEN 0 ELSE 1] : pad \in 0..(n - 1)}

\* attention masks of the forward calls: none, or one padded position first
StackMasks(n) == {<<>>} \cup {m \in LeftPadMasks(n) : n > 1 /\ m[1] = 0 /\ m[2] = 1}

\* attention masks of the engine's forward calls: none, or a left-padded mask
\* over the n new tokens or over one token more (a token processed before)
EngineMasks(n) ==
    {<<>>} \cup {m \in LeftPadMasks(n) \cup LeftPadMasks(n + 1) :
                    /\ Len(m) > 1
                    /\ m[1] = 0
                    /\ m[2] = 1 \/ m[Len(m) - 1] = 0}

CacheRefs(hp) == {NoPkv} \cup {FlaRef(i) : i \in 1..Len(hp)}

NoWrites == [l \in 0..(NumLayers - 1) |-> NoState]

Idle ==
    [ran |-> FALSE, ok |-> FALSE, err |-> "", n |-> 0, layer |-> NoLayerIdx,
     heads |-> 0, training |-> FALSE, kernels |-> {}, updated |-> FALSE,
     offset |-> 0, pkv |-> NoPkv, hasLayerIdx |-> FALSE,
     hadEntry |-> FALSE, initNone |-> FALSE, initWritten |-> FALSE,
     finalNone |-> FALSE, entryFinal |-> FALSE]

\* the state last written for a layer of a cache (NoState: none yet)
LastWritten(wr, pkv, layer_idx) ==
    IF pkv.kind = "fla" /\ layer_idx # NoLayerIdx
    THEN wr[pkv.id][layer_idx] ELSE NoState

\* the record of one attention forward: what ran, and how the kernel's
\* initial and final states relate to the history and to the cache afterwards
Observed(eng, pkv, n, r, wr) ==
    [ran |-> r.ran, ok |-> r.ok, err |-> r.err, n |-> n,
     layer |-> eng.layer_idx, heads |-> eng.num_heads,
     training |-> eng.training, kernels |-> r.kernels,
     updated |-> r.updated, offset |-> r.offset, pkv |-> pkv,
     hasLayerIdx |-> eng.layer_idx # NoLayerIdx,
     hadEntry |-> LastWritten(wr, pkv, eng.layer_idx) # NoState,
     initNone |-> r.init = NoState,
     initWritten |-> r.init = LastWritten(wr, pkv, eng.layer_idx),
     finalNone |-> r.final = NoState,
     entryFinal |-> /\ r.ok
                    /\ pkv.kind = "fla"
                    /\ CacheLen(r.heap[pkv.id]) > eng.layer_idx
                    /\ CacheGet(r.heap[pkv.id], eng.layer_idx) = r.final]

\* the history of writes, after one attention forward
Recorded(wr, eng, pkv, r) ==
    IF r.updated THEN [wr EXCEPT ![pkv.id][eng.layer_idx] = r.final] ELSE wr

NoTensors ==
    [ran |-> FALSE, variant |-> "gsa", n |-> 0, mask |-> <<>>, training |-> FALSE,
     cached |-> FALSE, q |-> <<>>, k |-> <<>>, rawv |-> <<>>, g |-> <<>>,
     s |-> <<>>, v |-> <<>>, sq |-> <<>>, sk |-> <<>>, sv |-> <<>>,
     y |-> <<>>, o |-> <<>>, oin |-> <<>>, out |-> <<>>]

\* the tensors of one attention forward
Tensors(eng, pkv, mask, r) ==
    [ran |-> r.ran, variant |-> eng.variant, n |-> Len(r.q), mask |-> mask,
     training |-> eng.training, cached |-> r.updated,
     q |-> r.q, k |-> r.k, rawv |-> r.rawv, g |-> r.g, s |-> r.s, v |-> r.v,
     sq |-> r.sq, sk |-> r.sk, sv |-> r.sv, y |-> r.y, o |-> r.o,
     oin |-> r.oin, out |-> r.out]

\* the paired runs on left-padded input: nothing compared yet
NoProbe ==
    [done |-> FALSE, n |-> 0, pad |-> 0, ok |-> FALSE,
     sameOut |-> FALSE, sameValidOut |-> FALSE, sameFinal |-> FALSE]

\* v with other content at the masked positions
AlteredV(v, m) ==
    [j \in 1..Len(v) |-> IF m[j] = 0 THEN VProj(Embed(0)) ELSE v[j]]

\* two results compared: the layer outputs, the outputs at the valid
\* positions, the updated recurrent states
Compared(m, a, b) ==
    [done |-> TRUE, n |-> Len(m),
     pad |-> Cardinality({j \in 1..Len(m) : m[j] = 0}),
     ok |-> a.ok /\ b.ok,
     sameOut |-> a.out = b.out,
     sameValidOut |-> \A j \in 1..Len(m) : m[j] # 0 => a.out[j] = b.out[j],
     sameFinal |-> a.final = b.final]

\* the gating computation before its input is drawn
NoGate == [pc |-> "idle", x |-> 0, m |-> 1, g |-> 0, s |-> 0, sm |-> 0]

\* the pooled key logits
Logits == (-MaxLogit)..MaxLogit

\* no concurrent forward calls; first is the thread that took the first step,
\* overlap tells whether a thread took a step while the other call was under way
NoThreads == [t |-> <<>>, first |-> 0, overlap |-> FALSE]

\* a forward call about to run its first layer; snap is the cache as the
\* current layer read it
NewThread(tokens) ==
    [pc |-> "read", layer |-> 0, tokens |-> tokens,
     hidden |-> SeqMap(Embed, tokens), snap |-> <<>>]

NotFed == [tokens |-> <<>>, lens |-> <<>>, plain |-> TRUE]

---------------------------------------------------------------------------
(* Construction of engines from arbitrary configurations *)

InitCtor ==
    /\ engine = NotBuilt
    /\ model = NotBuilt
    /\ heap = <<>>
    /\ written = <<>>
    /\ last = Idle
    /\ call = NoCall
    /\ probe = NoProbe
    /\ fed = <<>>
    /\ ncalls = 0
    /\ tensors = NoTensors
    /\ gate = NoGate
    /\ threads = NoThreads

Construct ==
    /\ engine.status = "none"
    /\ \E variant \in Variants, config \in Configs,
          layer_idx \in {NoLayerIdx} \cup (0..(NumLayers - 1)) :
          engine' = EngineInit(variant, config, layer_idx)
    /\ UNCHANGED <<model, heap, written, last, call, probe, fed, ncalls,
                 tensors, gate, threads>>

NextCtor == Construct

SpecCtor == InitCtor /\ [][NextCtor]_vars

---------------------------------------------------------------------------
(* Forward calls on a stand-alone engine *)

InitEngine ==
    /\ engine \in {[EngineInit(variant, config, layer_idx) EXCEPT !.training = t] :
                      variant \in Variants, config \in EngineConfigs,
                      layer_idx \in {NoLayerIdx, 0}, t \in BOOLEAN}
    /\ engine.status = "built"
    /\ model = NotBuilt
    /\ heap = <<>>
    /\ written = <<>>
    /\ last = Idle
    /\ call = NoCall
    /\ probe = NoProbe
    /\ fed = <<>>
    /\ ncalls = 0
    /\ tensors = NoTensors
    /\ gate = NoGate
    /\ threads = NoThreads

\* the caller makes its cache object: FlaCache()
NewCache ==
    /\ heap = <<>>
    /\ heap' = FromLegacyCache(heap)
    /\ written' = Append(written, NoWrites)
    /\ fed' = Append(fed, NotFed)
    /\ UNCHANGED <<engine, model, last, call, probe, ncalls,
                 tensors, gate, threads>>

EngineForward ==
    /\ ncalls < MaxCalls
    /\ \E n \in CallLens, pkv \in CacheRefs(heap) :
       \E hs \in HiddenInputs(n), mask \in EngineMasks(n) :
       \E r \in {AttnForward(engine, heap, pkv, hs, mask)} :
              /\ heap' = r.heap
              /\ tensors' = Tensors(engine, pkv, mask, r)
              /\ last' = Observed(engine, pkv, n, r, written)
              /\ written' = Recorded(written, engine, pkv, r)
    /\ ncalls' = ncalls + 1
    /\ UNCHANGED <<engine, model, call, probe, fed, gate, threads>>

\* two forwards without a cache on one left-padded input, the second with
\* other content of v at the masked positions
PaddedPair ==
    /\ ~probe.done
    /\ \E n \in CallLens :
       \E hs \in HiddenInputs(n), mask \in StackMasks(n) \ {<<>>} :
       \E a \in {AttnCore(engine, heap, NoPkv, SeqMap(QProj, hs),
                          SeqMap(KProj, hs), SeqMap(VProj, hs), mask)},
          b \in {AttnCore(engine, heap, NoPkv, SeqMap(QProj, hs),
                          SeqMap(KProj, hs),
                          AlteredV(SeqMap(VProj, hs), mask), mask)} :
          probe' = Compared(mask, a, b)
    /\ UNCHANGED <<engine, model, heap, written, last, call, fed, ncalls,
                 tensors, gate, threads>>

NextEngine == NewCache \/ EngineForward \/ PaddedPair

SpecEngine == InitEngine /\ [][NextEngine]_vars

---------------------------------------------------------------------------
(* Forward calls on the stack model *)

\* configurations of the stack models that run forward calls
StackConfigs ==
    [hidden_size : {4}, num_attention_heads : {2},
     num_key_value_heads : {1}, head_dim : {0}]

InitStack ==
    /\ engine = NotBuilt
    /\ model \in {BuildModel(variant, config, t, gc) :
                     variant \in Variants, config \in StackConfigs,
                     t \in BOOLEAN, gc \in BOOLEAN}
    /\ model.gradient_checkpointing => model.training
    /\ heap = <<>>
    /\ written = <<>>
    /\ last = Idle
    /\ call = NoCall
    /\ probe = NoProbe
    /\ fed = <<>>
    /\ ncalls = 0
    /\ tensors = NoTensors
    /\ gate = NoGate
    /\ threads = NoThreads

\* what a caller passes as past_key_values: nothing, a cache object, a legacy
\* tuple; with output_attentions the slot-attention model takes a
\* (recurrent, softmax) pair
PkvArgs(variant, output_attentions, hp) ==
    IF variant = "gsa" /\ output_attentions
    THEN {NoPkv} \cup {PairPkv(i) : i \in 1..Len(hp)}
    ELSE {NoPkv, LegacyPkv} \cup {FlaRef(i) : i \in 1..Len(hp)}

\* the history entries of the cache objects a step created
Grown(hist, hp, fresh) == hist \o [i \in 1..(Len(hp) - Len(hist)) |-> fresh]

\* a call that ends without finishing leaves its cache in no plain history
Spoiled(fd, pkv) ==
    IF pkv.kind = "fla" THEN [fd EXCEPT ![pkv.id].plain = FALSE] ELSE fd

\* forward, up to the decoder loop
StartCall ==
    /\ call.pc = "idle"
    /\ ncalls < MaxCalls
    /\ \E n \in CallLens, uc \in BOOLEAN, oa \in BOOLEAN, ohs \in BOOLEAN :
       \E ids \in TokenInputs(n), mask \in StackMasks(n),
          pkv \in PkvArgs(model.variant, oa, heap) :
          LET a == [input_ids |-> ids, attention_mask |-> mask,
                    past_key_values |-> pkv, use_cache |-> uc,
                    output_attentions |-> oa, output_hidden_states |-> ohs]
              p == Prepare(model, heap, a)
          IN  /\ heap' = p.heap
              /\ written' = Grown(written, p.heap, NoWrites)
              /\ fed' = Spoiled(Grown(fed, p.heap, NotFed),
                                IF p.ok THEN NoPkv ELSE pkv)
              /\ call' = [NoCall EXCEPT
                            !.pc = IF p.ok THEN "layers" ELSE "failed",
                            !.args = a, !.err = p.err,
                            !.use_cache = p.use_cache, !.pkv = p.pkv,
                            !.hidden = SeqMap(Embed, ids),
                            !.return_legacy_cache = p.return_legacy_cache,
                            !.past_seen = p.past_seen, !.ncaches0 = Len(heap)]
    /\ ncalls' = ncalls + 1
    /\ UNCHANGED <<engine, model, last, probe,
                 tensors, gate, threads>>

\* one pass of the decoder loop
LayerStep ==
    /\ call.pc = "layers"
    /\ call.layer < NumLayers
    /\ IF LoopNameError(model, call.args)
       THEN /\ call' = [call EXCEPT !.pc = "failed", !.err = "NameError"]
            /\ fed' = Spoiled(fed, call.pkv)
            /\ UNCHANGED <<heap, written, last>>
       ELSE \E f \in {LayerForward(model, call.layer, heap, call.pkv,
                                     call.hidden, call.args.attention_mask)},
               eng \in {LayerEngine(model, call.layer)} :
                /\ heap' = f.r.heap
                /\ last' = Observed(eng, call.pkv, Len(call.hidden), f.r, written)
                /\ written' = Recorded(written, eng, call.pkv, f.r)
                /\ fed' = IF f.r.ok THEN fed ELSE Spoiled(fed, call.pkv)
                /\ call' = IF f.r.ok
                           THEN [call EXCEPT
                                   !.hidden = f.hidden,
                                   !.layer = @ + 1,
                                   !.inits = Append(@, f.r.init = NoState),
                                   !.chain = Append(@, f.hidden =
                                                LayerOutput(call.hidden, f.r)),
                                   !.all_hidden_states =
                                       IF call.args.output_hidden_states
                                       THEN Append(@, call.hidden) ELSE @,
                                   !.next_decoder_cache =
                                       IF call.use_cache THEN call.pkv ELSE @]
                           ELSE [call EXCEPT !.pc = "failed", !.err = f.r.err]
    /\ UNCHANGED <<engine, model, probe, ncalls,
                 tensors, gate, threads>>

\* the cache the call returns
ReturnedCache(variant, c) ==
    IF variant = "gsa"
    THEN IF c.use_cache THEN c.next_decoder_cache ELSE NoPkv
    ELSE IF c.use_cache THEN c.pkv ELSE NoPkv

\* forward, after the decoder loop: the final norm and the outputs
FinishCall ==
    /\ call.pc = "layers"
    /\ call.layer = NumLayers
    /\ LET normed == SeqMap(Norm, call.hidden)
       IN  call' = [call EXCEPT
                      !.pc = "done",
                      !.ret = [last_hidden_state |-> normed,
                               past_key_values |->
                                   ReturnedCache(model.variant, call),
                               hidden_states |->
                                   IF call.args.output_hidden_states
                                   THEN Append(call.all_hidden_states, normed)
                                   ELSE <<>>]]
    /\ fed' = IF call.pkv.kind = "fla"
              THEN [fed EXCEPT ![call.pkv.id] =
                      [tokens |-> @.tokens \o call.args.input_ids,
                       lens |-> Append(@.lens, Len(call.args.input_ids)),
                       plain |-> /\ @.plain
                                 /\ call.args.attention_mask = <<>>
                                 /\ ~(model.gradient_checkpointing /\ model.training)]]
              ELSE fed
    /\ UNCHANGED <<engine, model, heap, written, last, probe, ncalls,
                 tensors, gate, threads>>

\* the caller is done with the outcome of the call
Return ==
    /\ call.pc \in {"done", "failed"}
    /\ call' = NoCall
    /\ last' = Idle
    /\ UNCHANGED <<engine, model, heap, written, probe, fed, ncalls,
                 tensors, gate, threads>>

NextStack == StartCall \/ LayerStep \/ FinishCall \/ Return

SpecStack == InitStack /\ [][NextStack]_vars

---------------------------------------------------------------------------
(* Two forward calls of one stack model that share one cache object and     *)
(* interleave at the attention layers: a layer reads its prior state from   *)
(* the cache, runs, and writes its final state into the cache as it is then *)

InitConc ==
    /\ engine = NotBuilt
    /\ model \in {BuildModel(variant, config, t, FALSE) :
                     variant \in Variants, config \in StackConfigs,
                     t \in BOOLEAN}
    /\ heap = <<EmptyCache>>
    /\ written = <<>>
    /\ last = Idle
    /\ call = NoCall
    /\ probe = NoProbe
    /\ fed = <<>>
    /\ ncalls = 0
    /\ tensors = NoTensors
    /\ gate = NoGate
    /\ \E n1 \in CallLens, n2 \in CallLens :
       \E a \in TokenInputs(n1), b \in TokenInputs(n2) :
           threads = [NoThreads EXCEPT !.t = <<NewThread(a), NewThread(b)>>]

\* the other thread's call has begun and has not returned
UnderWay(th) == th.pc = "write" \/ (th.pc = "read" /\ th.layer > 0)

Stepped(i) ==
    [first   |-> IF threads.first = 0 THEN i ELSE threads.first,
     overlap |-> threads.overlap \/ UnderWay(threads.t[3 - i])]

\* the layer of thread i looks up its prior state
ThreadRead(i) ==
    /\ threads.t[i].pc = "read"
    /\ threads' = [t |-> [threads.t EXCEPT ![i].pc = "write", ![i].snap = heap],
                   first |-> Stepped(i).first, overlap |-> Stepped(i).overlap]
    /\ UNCHANGED <<engine, model, heap, written, last, call, probe, fed, ncalls,
                   tensors, gate>>

\* the layer of thread i runs from the prior state it read and writes its
\* final state into the cache
ThreadWrite(i) ==
    /\ threads.t[i].pc = "write"
    /\ \E th \in {threads.t[i]} :
       \E f \in {LayerForward(model, th.layer, th.snap, FlaRef(1), th.hidden, <<>>)} :
          /\ heap' = WriteBack(heap, FlaRef(1), f.r.final, th.layer, f.r.offset)
          /\ threads' =
                [t |-> [threads.t EXCEPT
                          ![i].pc = IF th.layer + 1 < NumLayers THEN "read"
                                    ELSE "done",
                          ![i].layer = th.layer + 1,
                          ![i].hidden = f.hidden,
                          ![i].snap = <<>>],
                 first |-> Stepped(i).first, overlap |-> Stepped(i).overlap]
    /\ UNCHANGED <<engine, model, written, last, call, probe, fed, ncalls,
                   tensors, gate>>

NextConc == \E i \in {1, 2} : ThreadRead(i) \/ ThreadWrite(i)

SpecConc == InitConc /\ [][NextConc]_vars

---------------------------------------------------------------------------
(* The gating computation of one element: a pooled key logit x and the mask *)
(* column m of its position                                                  *)

InitGate ==
    /\ engine = NotBuilt
    /\ model = NotBuilt
    /\ heap = <<>>
    /\ written = <<>>
    /\ last = Idle
    /\ call = NoCall
    /\ probe = NoProbe
    /\ fed = <<>>
    /\ ncalls = 0
    /\ tensors = NoTensors
    /\ threads = NoThreads
    /\ \E x \in Logits, m \in {0, 1} :
           gate = [NoGate EXCEPT !.pc = "pooled", !.x = x, !.m = m]

\* g = F.logsigmoid(g) / gate_logit_normalizer
ComputeGate ==
    /\ gate.pc = "pooled"
    /\ gate' = [gate EXCEPT !.pc = "gated", !.g = GateValue(gate.x)]
    /\ UNCHANGED <<engine, model, heap, written, last, call, probe, fed, ncalls,
                   tensors, threads>>

\* s = 1 - torch.exp(g)
ComputeDecay ==
    /\ gate.pc = "gated"
    /\ gate' = [gate EXCEPT !.pc = "decayed", !.s = SlotDecayValue(gate.g)]
    /\ UNCHANGED <<engine, model, heap, written, last, call, probe, fed, ncalls,
                   tensors, threads>>

\* s = s.mul_(attention_mask[:, None, -s.shape[2]:, None])
ApplyMask ==
    /\ gate.pc = "decayed"
    /\ gate' = [gate EXCEPT !.pc = "masked", !.sm = MaskedValue(gate.s, gate.m)]
    /\ UNCHANGED <<engine, model, heap, written, last, call, probe, fed, ncalls,
                   tensors, threads>>

NextGate == ComputeGate \/ ComputeDecay \/ ApplyMask

SpecGate == InitGate /\ [][NextGate]_vars

---------------------------------------------------------------------------
(* Properties of the attention engine and of its construction *)

\* C1: when a forward writes the updated state back to the cache, the offset
\* it passes to the cache update equals the number n of new tokens, for every
\* n and every head count.
C1_OffsetIsNewTokens == last.updated => last.offset = last.n

\* C2: exactly one recurrent formulation runs per forward: the chunked one if
\* the module is training or more than one new token is processed, the fused
\* single-step one if and only if exactly one new token is processed and the
\* module is not training; whether a cache or a prior state exists plays no part.
C2_KernelByTrainingAndLength ==
    last.ran =>
        /\ Cardinality(last.kernels) = 1
        /\ last.kernels =
              {IF last.training \/ last.n > 1 THEN "chunk" ELSE "fused"}

\* a single-token forward outside training, on a cache that held a prior
\* state for the layer, ran the fused formulation on a two-head engine
C2_FusedOnPriorState ==
    /\ last.ran
    /\ last.kernels = {"fused"}
    /\ last.hadEntry
    /\ ~last.initNone
    /\ last.heads = 2

\* C7: an engine constructed from a configuration with
\* num_heads % num_key_value_heads # 0 or num_heads * head_dim # hidden_size
\* fails at construction, in either variant.
C7_InvalidConfigFailsAtConstruction ==
    (/\ engine.status # "none"
     /\ \/ engine.num_heads % engine.num_key_value_heads # 0
        \/ engine.num_heads * engine.head_dim # engine.hidden_size)
    => engine.status = "failed"

\* C9: an engine constructed without a layer_idx is built with a warning, and
\* a forward on it fails if and only if a cache object is supplied.
C9_MissingLayerIdxWarnsThenFailsOnCache ==
    engine.layer_idx = NoLayerIdx =>
        /\ engine.status = "built"
        /\ engine.warned
        /\ last.n > 0 => (last.ok <=> last.pkv.kind = "none")

\* C10: two forwards on one left-padded input that differ only in the content
\* of v at the masked positions give the same layer output and the same
\* updated recurrent state.
C10_PaddedValuesDoNotInterfere ==
    probe.done => probe.ok /\ probe.sameOut /\ probe.sameFinal

---------------------------------------------------------------------------
(* Properties of the recurrent state across the forward calls of the stack *)

\* C3: the initial state given to the recurrent kernel is none when no cache
\* is supplied or no state was written yet for this layer index; otherwise it
\* is exactly the state most recently written for this layer index.
C3_InitIsLastWritten ==
    last.ran =>
        IF last.pkv.kind = "none" \/ ~last.hadEntry
        THEN last.initNone
        ELSE last.initWritten /\ ~last.initNone

\* a layer above the first started from the state an earlier call wrote for it
C3_ResumedFromWrittenState ==
    /\ last.ran
    /\ last.layer = NumLayers - 1
    /\ last.hadEntry
    /\ last.initWritten
    /\ ~last.initNone

\* the entry of layer l of cache i is Active: it exists and holds a state
Active(hp, i, l) ==
    /\ i <= Len(hp)
    /\ CacheLen(hp[i]) > l
    /\ CacheGet(hp[i], l) # NoState

\* C4: through forward calls an Active entry never returns to Uninitialized,
\* and every attention forward that ran with a cache present leaves the
\* layer's entry equal to the kernel's updated state.
C4_ActiveStaysActive ==
    [][/\ \A i \in 1..Len(heap), l \in 0..(NumLayers - 1) :
            Active(heap, i, l) => Active(heap', i, l)
       /\ (last'.ran /\ last'.pkv.kind # "none") =>
            last'.updated /\ last'.entryFinal /\ ~last'.finalNone]_vars

\* a forward replaced an Active entry of the last layer with its updated state
C4_ActiveEntryReplaced ==
    /\ last.ran
    /\ last.hadEntry
    /\ last.updated
    /\ last.entryFinal
    /\ last.layer = NumLayers - 1
    /\ Active(heap, last.pkv.id, last.layer)

\* C5: a call over n tokens with use_cache and a second call of one token on
\* the returned cache leave every layer's state equal to the state one call
\* over all n + 1 tokens produces.
C5_SplitEqualsWhole ==
    (/\ call.pc = "done"
     /\ call.pkv.kind = "fla"
     /\ fed[call.pkv.id].plain
     /\ Len(fed[call.pkv.id].lens) = 2
     /\ fed[call.pkv.id].lens[2] = 1)
    => heap[call.pkv.id].states = WholeStates(model, fed[call.pkv.id].tokens)

\* C6: after a stack forward with use_cache and no cache supplied, a cache
\* created for the call is returned, it holds a state for every layer, and no
\* layer of the call started from a state of another call.
C6_FreshCacheReturned ==
    (/\ call.pc = "done"
     /\ call.args.use_cache
     /\ call.args.past_key_values.kind = "none")
    => /\ call.ret.past_key_values = FlaRef(call.ncaches0 + 1)
       /\ Len(heap) = call.ncaches0 + 1
       /\ \A l \in 0..(NumLayers - 1) : Active(heap, call.ncaches0 + 1, l)
       /\ \A l \in 1..Len(call.inits) : call.inits[l]

\* C6, outside gradient checkpointing in training mode (where use_cache is
\* switched off): the cache is created, returned, filled and unshared.
C6_FreshCacheReturnedUnlessCheckpointing ==
    ~(model.gradient_checkpointing /\ model.training) => C6_FreshCacheReturned

\* a second call without a cache, made while the cache of the first exists,
\* returned its own cache
C6_SecondSessionOwnCache ==
    /\ call.pc = "done"
    /\ call.args.use_cache
    /\ call.args.past_key_values.kind = "none"
    /\ call.ncaches0 = 1
    /\ Active(heap, 1, NumLayers - 1)
    /\ call.ret.past_key_values = FlaRef(2)
    /\ Active(heap, 2, NumLayers - 1)

\* C8: a stack forward passed a legacy cache fails at once with the
\* type-mismatch error: no layer has run, no cache was created or changed.
C8_LegacyCacheRejected ==
    (call.pc # "idle" /\ call.args.past_key_values.kind = "legacy")
    => /\ call.pc = "failed"
       /\ call.err = "ValueError"
       /\ call.layer = 0
       /\ ~last.ran
       /\ Len(heap) = call.ncaches0

\* C8, for the linear-attention stack model (the slot-attention stack model
\* converts a legacy cache into a new cache object)
C8_LegacyCacheRejectedByGLA ==
    model.variant = "gla" => C8_LegacyCacheRejected

\* the linear-attention stack rejected a legacy cache while a cache existed
C8_GLARejectedLegacy ==
    /\ model.variant = "gla"
    /\ call.pc = "failed"
    /\ call.args.past_key_values.kind = "legacy"
    /\ call.args.use_cache
    /\ call.err = "ValueError"
    /\ Len(heap) = 1

\* C11: in a slot-attention forward with an attention mask of L columns over
\* n new tokens, the slot decay s and the value v that enter the recurrent
\* kernel are exactly zero at the positions j whose mask column L - n + j is
\* zero, and are the unmasked 1 - exp(g) and the replicated value projection
\* at every other position; this includes one new token with L > 1.
C11_MaskedAtPaddedColumns ==
    (tensors.ran /\ tensors.variant = "gsa" /\ tensors.mask # <<>>) =>
        \A j \in 1..tensors.n :
            IF tensors.mask[Len(tensors.mask) - tensors.n + j] = 0
            THEN tensors.s[j] = Zero /\ tensors.v[j] = Zero
            ELSE /\ tensors.s[j] = SlotDecay(tensors.g[j])
                 /\ tensors.v[j] = tensors.rawv[j]
                 /\ tensors.s[j] # Zero /\ tensors.v[j] # Zero

\* a chunk of new tokens shorter than the mask, with a padded column in the
\* part of the mask that belongs to the chunk
C11_PaddedColumnInTail ==
    /\ tensors.ran /\ tensors.variant = "gsa"
    /\ tensors.n > 1
    /\ Len(tensors.mask) > tensors.n
    /\ tensors.s[1] = Zero /\ tensors.v[1] = Zero
    /\ tensors.s[tensors.n] # Zero

\* C12: in every attention forward that ran, with or without an attention
\* mask, the value tensor handed to the windowed attention is the replicated
\* value projection as it was before the recurrent path's padding mask, and
\* the Q and K handed to it are the projections before the recurrent path's
\* normalization.
C12_WindowPathGetsRawTensors ==
    tensors.ran =>
        /\ tensors.sv = tensors.rawv
        /\ tensors.sq = tensors.q
        /\ tensors.sk = tensors.k

\* C13 as stated: the tensor fed to the output projection equals exactly
\* 0.5 * windowed output + 0.5 * recurrent output at every position.
C13_FedIsExactlyHalfSum ==
    tensors.ran =>
        \A j \in 1..tensors.n :
            tensors.oin[j] =
                <<"blend", <<1, 2>>, tensors.y[j], <<1, 2>>, tensors.o[j]>>

\* C13 amended: in both variants, whatever the configuration, the training
\* mode, the mask and the cache, the tensor fed to the output projection is
\* the bfloat16 rounding of 0.5 * windowed output + 0.5 * recurrent output
\* at every position, and the layer output is its output projection.
C13_FedIsRoundedHalfSum ==
    tensors.ran =>
        \A j \in 1..tensors.n :
            /\ tensors.oin[j] =
                  Bf16(<<"blend", <<1, 2>>, tensors.y[j], <<1, 2>>, tensors.o[j]>>)
            /\ tensors.out[j] = OProj(tensors.oin[j])

\* a forward in training mode with a cache and a mask, whose windowed output
\* is zero at the padded position and not at the last one
C13_BlendedUnderMaskAndCache ==
    /\ tensors.ran /\ tensors.cached /\ tensors.training
    /\ tensors.n > 1 /\ tensors.mask # <<>>
    /\ tensors.y[1] = Zero /\ tensors.y[tensors.n] # Zero
    /\ tensors.o[tensors.n] # Zero

---------------------------------------------------------------------------
(* Properties of the stack model's forward *)

\* C17: in every stack forward that returns, gradient checkpointing in
\* training mode included, every layer ran once in index order, the hidden
\* states after each layer's pass (the input of the next layer, and after the
\* last layer the input of the final norm) are that layer's output, and the
\* result is the final norm of them.
C17_LayersChained ==
    call.pc = "done" =>
        /\ call.layer = NumLayers
        /\ Len(call.chain) = NumLayers
        /\ \A i \in 1..NumLayers : call.chain[i]
        /\ call.ret.last_hidden_state = SeqMap(Norm, call.hidden)

\* C18: a layer's pass changes no cache entry but the one at its own layer
\* index of the cache it was given, appends no entry but its own, and when a
\* stack forward with a cache has returned, every layer index of the cache
\* holds the state that layer wrote.
C18_WritesOnlyOwnEntry ==
    [][/\ \A i \in 1..Len(heap), l \in 0..(NumLayers - 1) :
            (\/ CacheLen(heap[i]) > l /\ CacheGet(heap'[i], l) # CacheGet(heap[i], l)
             \/ CacheLen(heap[i]) <= l /\ CacheLen(heap'[i]) > l)
            => (call.pc = "layers" /\ call.pkv = FlaRef(i) /\ call.layer = l)
       /\ \A i \in 1..Len(heap) : CacheLen(heap'[i]) >= CacheLen(heap[i])
       /\ (call'.pc = "done" /\ call'.pkv.kind = "fla") =>
            /\ CacheLen(heap'[call'.pkv.id]) = NumLayers
            /\ \A l \in 0..(NumLayers - 1) :
                  CacheGet(heap'[call'.pkv.id], l) = written'[call'.pkv.id][l]]_vars

\* a stack forward on a cache that held states before has returned, and the
\* cache holds a state of its own for every layer
C18_EachLayerOwnState ==
    /\ call.pc = "done"
    /\ call.pkv.kind = "fla"
    /\ call.pkv.id <= call.ncaches0
    /\ \A l \in 0..(NumLayers - 1) : ~call.inits[l + 1]
    /\ \A l \in 0..(NumLayers - 1) :
          /\ CacheGet(heap[call.pkv.id], l) = written[call.pkv.id][l]
          /\ \A k \in 0..(NumLayers - 1) :
                k # l => CacheGet(heap[call.pkv.id], k) # CacheGet(heap[call.pkv.id], l)

\* C19: a forward call of the slot-attention stack model with use_cache (and
\* without output_hidden_states) and a cache object supplied by the caller,
\* alone or as the first element of the (recurrent, softmax) pair, does not
\* fail, hands that cache object to the layers and returns it.
C19_SuppliedCachePreserved ==
    (/\ model.status = "built" /\ model.variant = "gsa"
     /\ ~(model.gradient_checkpointing /\ model.training)
     /\ call.pc \in {"layers", "done", "failed"}
     /\ call.args.use_cache
     /\ ~call.args.output_hidden_states
     /\ call.args.past_key_values.kind \in {"fla", "pair"}) =>
        /\ call.pc # "failed"
        /\ call.pkv.id = call.args.past_key_values.id
        /\ call.pc = "done" =>
              call.ret.past_key_values.id = call.args.past_key_values.id

\* C20: a stack forward call without a cache argument and with
\* output_hidden_states does not fail, whatever output_attentions and
\* use_cache are, and returns NumLayers + 1 hidden-state entries.
C20_HiddenStatesReturned ==
    (/\ call.pc \in {"done", "failed"}
     /\ call.args.output_hidden_states
     /\ call.args.past_key_values = NoPkv) =>
        /\ call.pc = "done"
        /\ Len(call.ret.hidden_states) = NumLayers + 1

---------------------------------------------------------------------------
(* Properties of the gating computation *)

\* C14: for every pooled key logit x, the gate g = logsigmoid(x) / 16 is
\* never above zero and is finite: it is not below (min(x, 0) - 1) / 16.
C14_GateNotPositive ==
    gate.pc \in {"gated", "decayed", "masked"} =>
        /\ gate.g <= 0
        /\ gate.g * GateLogitNormalizer
             >= ((IF gate.x < 0 THEN gate.x ELSE 0) - 1) * Resolution
                - GateLogitNormalizer

\* the gate of the most negative logit is strictly negative, and the gate of
\* the largest logit rounds to zero
C14_GateOfExtremeLogit ==
    /\ gate.pc = "gated"
    /\ \/ gate.x = -MaxLogit /\ gate.g < -Resolution
       \/ gate.x = MaxLogit /\ gate.g = 0

\* C15 as stated: the slot decay s = 1 - exp(g) lies in [0, 1), before and
\* after the left-padding mask is applied.
C15_DecayBelowOne ==
    /\ gate.pc \in {"decayed", "masked"} => gate.s >= 0 /\ gate.s < Resolution
    /\ gate.pc = "masked" => gate.sm >= 0 /\ gate.sm < Resolution

\* C15 amended: the slot decay lies in [0, 1] before and after the mask; it
\* is zero where the gate is zero, below one where the gate is above -1, and
\* the mask leaves it as it is or makes it zero.
C15_DecayInClosedUnitInterval ==
    /\ gate.pc \in {"decayed", "masked"} =>
           /\ gate.s >= 0 /\ gate.s <= Resolution
           /\ gate.g = 0 => gate.s = 0
           /\ gate.g > -Resolution => gate.s < Resolution
    /\ gate.pc = "masked" =>
           /\ gate.sm >= 0 /\ gate.sm <= Resolution
           /\ gate.sm = (IF gate.m = 0 THEN 0 ELSE gate.s)

\* a strongly negative logit: exp(g) rounds to zero and the decay, kept by
\* the mask, is exactly one
C15_DecayIsOne ==
    /\ gate.pc = "masked"
    /\ gate.m = 1
    /\ gate.s = Resolution
    /\ gate.sm = Resolution

---------------------------------------------------------------------------
(* Properties of concurrent forward calls on one cache *)

\* the cache after the call over tokens a and then the call over tokens b
Serialized(a, b) ==
    RunLayers(model, 0,
              RunLayers(model, 0, <<EmptyCache>>, FlaRef(1), SeqMap(Embed, a), <<>>),
              FlaRef(1), SeqMap(Embed, b), <<>>)

BothDone == threads.t # <<>> /\ \A i \in {1, 2} : threads.t[i].pc = "done"

\* C16: when the two forward calls on the shared cache ran one after the
\* other, the cache is the sequential composition of the two calls in the
\* order they ran, and its first layer holds the state of their tokens in
\* that order.
C16_SerializedIsSequential ==
    (BothDone /\ ~threads.overlap) =>
        \E i \in {threads.first} :
            /\ heap = Serialized(threads.t[i].tokens, threads.t[3 - i].tokens)
            /\ heap[1].states[1] =
                  WholeStates(model, threads.t[i].tokens \o threads.t[3 - i].tokens)[1]

\* a lost update: the two calls interleaved at the layers and left a cache
\* that neither serialized order of the two calls produces
C16_LostUpdate ==
    /\ BothDone
    /\ threads.overlap
    /\ heap # Serialized(threads.t[1].tokens, threads.t[2].tokens)
    /\ heap # Serialized(threads.t[2].tokens, threads.t[1].tokens)

=============================================================================
